---- MODULE Spec2Model ----
(***************************************************************************)
(* miniflag (github.com/erikjuhani/miniflag): flag registries built on     *)
(* Go's standard flag package.                                             *)
(*                                                                         *)
(* Strings are tuples of one-character strings, so that the code's byte    *)
(* tests (arg[0] == '-', len(name) == 1, strings.ReplaceAll) are computed  *)
(* and not assumed.  A registry is the pair the code builds in NewFlagSet: *)
(* the *flag.FlagSet (formal, args, errorHandling) and the flags slice     *)
(* header (array, length) over a backing array.                            *)
(***************************************************************************)
EXTENDS Integers, Sequences, FiniteSets, TLC

VARIABLES
    regs,       \* every FlagSet created so far, in creation order; regs[1] is CommandLine
    flagSets,   \* the package map flagSets: name -> index in regs
    arrays,     \* backing arrays of the flags slices; arrays[1] backs flagInfoSlice
    cells,      \* the heap variables the definition calls bind (the escaped parameter value)
    pc,         \* where the calling program stands: define, parsed, args, usage, panicked, exited
    defs,       \* history: one record per definition call
    parseCall,  \* history: the parse call made (None before it)
    argsCall,   \* history: the last args call made (None before it)
    output      \* the text Usage wrote to fs.Output()

vars == <<regs, flagSets, arrays, cells, pc, defs, parseCall, argsCall, output>>

None == [op |-> "none"]

----------------------------------------------------------------------------
(* Bounds of the model. *)

MaxRegs == 2        \* NewFlagSet calls after package initialisation
MaxDefs == 2        \* definition calls in the free specifications
MaxTokens == 2      \* length of the token sequence in the free specifications
MaxArgTokens == 3   \* length of the token sequence in SpecArgs
MaxUsageLen == 4    \* length of the usage text in SpecHint
MaxUsageDefs == 5   \* definition calls in SpecUsage

(* Program constants. *)

FlagInfoCap == 32   \* capacity of flagInfoSlice

----------------------------------------------------------------------------
(* Strings as tuples of characters. *)

Str0 == <<>>
From(s, i) == SubSeq(s, i, Len(s))
Range(s) == {s[i] : i \in 1..Len(s)}
HasPrefixDash(s) == Len(s) > 0 /\ s[1] = "-"
ContainsEq(s) == "=" \in Range(s)

(* strings.ReplaceAll(s, "-", "") *)
ReplaceAllDash(s) == SelectSeq(s, LAMBDA c : c # "-")

(* The sequences over S of length at most n. *)
SeqsUpTo(S, n) == UNION {[1..k -> S] : k \in 0..n}

----------------------------------------------------------------------------
(* The values a flag can hold.  kind is the type the type switch of        *)
(* defineFlag infers: bool, string, nil (a nil interface), other (a type   *)
(* that is neither built in nor a flag.Value).                             *)

BoolVal(b) == [kind |-> "bool", b |-> b, s |-> Str0]
StringVal(s) == [kind |-> "string", b |-> FALSE, s |-> s]
NilVal == [kind |-> "nil", b |-> FALSE, s |-> Str0]
OtherVal == [kind |-> "other", b |-> FALSE, s |-> Str0]

(* strconv.ParseBool, which boolValue.Set uses. *)
TrueWords == { <<"1">>, <<"t">>, <<"T">>, <<"T","R","U","E">>,
               <<"t","r","u","e">>, <<"T","r","u","e">> }
FalseWords == { <<"0">>, <<"f">>, <<"F">>, <<"F","A","L","S","E">>,
                <<"f","a","l","s","e">>, <<"F","a","l","s","e">> }
ParseBoolOk(v) == v \in TrueWords \cup FalseWords
ParseBool(v) == v \in TrueWords

----------------------------------------------------------------------------
(* The standard library's flag.FlagSet, as far as miniflag drives it.      *)
(* formal maps a flag name to the cell its Value points at.                *)

(* FlagSet.Var as it would be if it accepted a name formal already holds. *)
StdVarNoDuplicateCheck(formal, name, cell) ==
    IF HasPrefixDash(name) \/ ContainsEq(name)
    THEN [formal |-> formal, panic |-> TRUE]
    ELSE [formal |-> (name :> cell) @@ formal, panic |-> FALSE]

(* FlagSet.Var: panics on a name that begins with "-" or contains "=", and *)
(* on a name that formal already holds; otherwise adds the name.           *)
StdVar(formal, name, cell) ==
    IF HasPrefixDash(name) \/ ContainsEq(name) \/ name \in DOMAIN formal
    THEN [formal |-> formal, panic |-> TRUE]
    ELSE [formal |-> (name :> cell) @@ formal, panic |-> FALSE]

(* Index of the first "=" of name at position 2 or later (an "=" cannot be *)
(* first), 0 when there is none.                                           *)
FirstEq(name) ==
    LET at == {i \in 2..Len(name) : name[i] = "="}
    IN  IF at = {} THEN 0 ELSE CHOOSE i \in at : \A j \in at : i <= j

HelpNames == { <<"h","e","l","p">>, <<"h">> }

(* FlagSet.parseOne: one flag of the front of args, or the reason to stop. *)
StdParseOne(formal, cs, a) ==
    LET stop(err, rest) == [seen |-> FALSE, err |-> err, cells |-> cs, args |-> rest]
        done(c2, rest) == [seen |-> TRUE, err |-> "nil", cells |-> c2, args |-> rest]
    IN
    IF Len(a) = 0 THEN stop("nil", a)
    ELSE
    LET s == a[1] IN
    IF Len(s) < 2 \/ s[1] # "-" THEN stop("nil", a)
    ELSE
    LET numMinuses == IF s[2] = "-" THEN 2 ELSE 1 IN
    IF numMinuses = 2 /\ Len(s) = 2 THEN stop("nil", Tail(a))
    ELSE
    LET name0 == From(s, numMinuses + 1) IN
    IF Len(name0) = 0 \/ name0[1] = "-" \/ name0[1] = "=" THEN stop("syntax", a)
    ELSE
    LET rest == Tail(a)
        eq == FirstEq(name0)
        hasValue == eq # 0
        value == IF hasValue THEN From(name0, eq + 1) ELSE Str0
        name == IF hasValue THEN SubSeq(name0, 1, eq - 1) ELSE name0
    IN
    IF name \notin DOMAIN formal
    THEN stop(IF name \in HelpNames THEN "help" ELSE "undefined", rest)
    ELSE
    LET c == formal[name] IN
    IF cs[c].kind = "bool"
    THEN IF hasValue
         THEN IF ParseBoolOk(value)
              THEN done([cs EXCEPT ![c].b = ParseBool(value)], rest)
              ELSE stop("invalid", rest)
         ELSE done([cs EXCEPT ![c].b = TRUE], rest)
    ELSE IF hasValue
         THEN done([cs EXCEPT ![c].s = value], rest)
         ELSE IF Len(rest) > 0
              THEN done([cs EXCEPT ![c].s = rest[1]], Tail(rest))
              ELSE stop("needsarg", rest)

(* FlagSet.Parse: parseOne until it sees no flag.  The result carries the  *)
(* error; what the error does to the process is FlagSet.errorHandling's.   *)
RECURSIVE StdParseLoop(_, _, _)
StdParseLoop(formal, cs, a) ==
    LET r == StdParseOne(formal, cs, a)
    IN  IF r.seen THEN StdParseLoop(formal, r.cells, r.args)
        ELSE [cells |-> r.cells, args |-> r.args, err |-> r.err]

(* FlagSet.Parse as it would be if a failure restored the variables. *)
StdParseRollback(formal, cs, a) ==
    LET r == StdParseLoop(formal, cs, a)
    IN  IF r.err = "nil" THEN r ELSE [r EXCEPT !.cells = cs]

StdParse(formal, cs, a) == StdParseLoop(formal, cs, a)

(* Where the process stands after FlagSet.Parse returned err under the     *)
(* FlagSet's errorHandling.                                                *)
AfterParse(errorHandling, err) ==
    IF err = "nil" THEN "parsed"
    ELSE CASE errorHandling = "ContinueOnError" -> "parsed"
           [] errorHandling = "ExitOnError" -> "exited"
           [] errorHandling = "PanicOnError" -> "panicked"

ErrorHandlings == {"ContinueOnError", "ExitOnError", "PanicOnError"}

----------------------------------------------------------------------------
(* miniflag: the flags slice.  A slice is [arr, len] over arrays[arr] =     *)
(* [cap, slots]; slots holds the elements written so far.                   *)

(* The elements a slice header reads. *)
SliceElems(arrs, sl) == SubSeq(arrs[sl.arr].slots, 1, sl.len)

(* append(sl, x): within capacity it writes slot len+1 of the array the    *)
(* header points at, whoever else points at it; at capacity it copies the  *)
(* elements into a new array of twice the capacity.                        *)
SliceAppend(arrs, sl, x) ==
    LET a == arrs[sl.arr] IN
    IF sl.len < a.cap
    THEN [arrays |-> [arrs EXCEPT ![sl.arr].slots =
                         IF sl.len < Len(a.slots)
                         THEN [a.slots EXCEPT ![sl.len + 1] = x]
                         ELSE Append(a.slots, x)],
          slice |-> [arr |-> sl.arr, len |-> sl.len + 1]]
    ELSE [arrays |-> Append(arrs, [cap |-> 2 * a.cap,
                                   slots |-> Append(SliceElems(arrs, sl), x)]),
          slice |-> [arr |-> Len(arrs) + 1, len |-> sl.len + 1]]

(* The backtick character (the lexer of TLA+ reserves the glyph). *)
Backtick == "BACKTICK"

(* extractUsageValue: pos is 0 until the first backtick is seen, then the  *)
(* index after it; i is the 0-based loop index.                            *)
RECURSIVE extractUsageValueFrom(_, _, _)
extractUsageValueFrom(s, i, pos) ==
    IF i >= Len(s) THEN Str0
    ELSE IF s[i + 1] = Backtick
         THEN IF pos = 0
              THEN extractUsageValueFrom(s, i + 1, i + 1)
              ELSE SubSeq(s, pos + 1, i)
         ELSE extractUsageValueFrom(s, i + 1, pos)

(* extractUsageValue as it would be if pos held the index of the first     *)
(* backtick itself: a backtick at index 0 would pass for none seen.        *)
RECURSIVE extractUsageValuePosIsIndexFrom(_, _, _)
extractUsageValuePosIsIndexFrom(s, i, pos) ==
    IF i >= Len(s) THEN Str0
    ELSE IF s[i + 1] = Backtick
         THEN IF pos = 0
              THEN extractUsageValuePosIsIndexFrom(s, i + 1, i)
              ELSE SubSeq(s, pos + 2, i)
         ELSE extractUsageValuePosIsIndexFrom(s, i + 1, pos)

extractUsageValuePosIsIndex(s) == extractUsageValuePosIsIndexFrom(s, 0, 0)

extractUsageValue(s) == extractUsageValueFrom(s, 0, 0)

(* The flagInfo defineUsage builds: a one-character name becomes the       *)
(* shorthand and the name is cleared.                                      *)
flagInfo(name, shorthand, usage) ==
    [Longhand |-> IF Len(name) = 1 THEN Str0 ELSE name,
     Shorthand |-> IF Len(name) = 1 THEN name ELSE shorthand,
     UsageValue |-> extractUsageValue(usage),
     Usage |-> usage]

(* defineUsage: appends the flagInfo to the slice. *)
defineUsage(arrs, flags, name, shorthand, usage) ==
    SliceAppend(arrs, flags, flagInfo(name, shorthand, usage))

(* boolVar as it would be with one variable per identifier. *)
boolVarTwoCells(formal, cs, name, shorthand, value) ==
    LET p == Len(cs) + 1
        n == StdVar(formal, name, p)
        m == IF ~n.panic /\ shorthand # Str0 THEN StdVar(n.formal, shorthand, p + 1) ELSE n
    IN  [formal |-> m.formal, cells |-> Append(Append(cs, value), value),
         ptr |-> p, panic |-> m.panic]

(* boolVar, stringVar: the parameter value escapes to one heap cell, and   *)
(* the name and, when not empty, the shorthand are registered with a       *)
(* pointer to that cell.  A panic of the first registration leaves the     *)
(* second undone.                                                          *)
boolVar(formal, cs, name, shorthand, value) ==
    LET p == Len(cs) + 1
        n == StdVar(formal, name, p)
        m == IF ~n.panic /\ shorthand # Str0 THEN StdVar(n.formal, shorthand, p) ELSE n
    IN  [formal |-> m.formal, cells |-> Append(cs, value), ptr |-> p, panic |-> m.panic]

(* stringVar as it would be if it registered the flags with the zero value *)
(* for default: StringVar stores the default it is given in the variable.  *)
stringVarZeroDefault(formal, cs, name, shorthand, value) ==
    LET p == Len(cs) + 1
        n == StdVar(formal, name, p)
        m == IF ~n.panic /\ shorthand # Str0 THEN StdVar(n.formal, shorthand, p) ELSE n
    IN  [formal |-> m.formal, cells |-> Append(cs, [value EXCEPT !.s = Str0]),
         ptr |-> p, panic |-> m.panic]

(* stringVar as it would be with one variable per identifier. *)
stringVarTwoCells(formal, cs, name, shorthand, value) ==
    LET p == Len(cs) + 1
        n == StdVar(formal, name, p)
        m == IF ~n.panic /\ shorthand # Str0 THEN StdVar(n.formal, shorthand, p + 1) ELSE n
    IN  [formal |-> m.formal, cells |-> Append(Append(cs, value), value),
         ptr |-> p, panic |-> m.panic]

stringVar(formal, cs, name, shorthand, value) ==
    LET p == Len(cs) + 1
        n == StdVar(formal, name, p)
        m == IF ~n.panic /\ shorthand # Str0 THEN StdVar(n.formal, shorthand, p) ELSE n
    IN  [formal |-> m.formal, cells |-> Append(cs, value), ptr |-> p, panic |-> m.panic]

(* The type switch of defineFlag.  A nil interface matches no case: no     *)
(* flag, a nil pointer (0).  A type that is no flag.Value panics in        *)
(* the type assertion of valueVar.                                         *)
defineVar(formal, cs, name, shorthand, value) ==
    CASE value.kind = "bool" -> boolVar(formal, cs, name, shorthand, value)
      [] value.kind = "string" -> stringVar(formal, cs, name, shorthand, value)
      [] value.kind = "other" -> [formal |-> formal, cells |-> cs, ptr |-> 0, panic |-> TRUE]
      [] value.kind = "nil" -> [formal |-> formal, cells |-> cs, ptr |-> 0, panic |-> FALSE]

(* defineFlag as it would be if it kept a shorthand equal to the name. *)
effShorthandKept(name, shorthand) == shorthand

(* The shorthand defineFlag goes on with: dropped when it equals the name. *)
effShorthand(name, shorthand) == IF name = shorthand THEN Str0 ELSE shorthand

----------------------------------------------------------------------------
(* miniflag: parse and args.                                               *)

(* parse as it would be if one token were enough to delegate. *)
parseTargetAnyLength(sets, fs, tokens) ==
    IF Len(tokens) > 0 /\ tokens[1] \in DOMAIN sets
    THEN [fs |-> sets[tokens[1]], args |-> Tail(tokens)]
    ELSE [fs |-> fs, args |-> tokens]

(* parse: the FlagSet that is parsed and the tokens it is given.  With     *)
(* more than one token and a first token that names an entry of flagSets,  *)
(* that entry is parsed with the tail.                                     *)
parseTarget(sets, fs, tokens) ==
    IF Len(tokens) > 1 /\ tokens[1] \in DOMAIN sets
    THEN [fs |-> sets[tokens[1]], args |-> Tail(tokens)]
    ELSE [fs |-> fs, args |-> tokens]

(* The loop of args over a == fs.Args(), from index i (1-based), with the  *)
(* result so far.  args[i-1][0] on an empty args[i-1] is an index out of   *)
(* range: a run-time panic.                                                *)
RECURSIVE argsLoop(_, _, _, _, _)
argsLoop(formal, cs, a, i, pArgs) ==
    IF i > Len(a) THEN [panic |-> FALSE, pArgs |-> pArgs]
    ELSE
    LET arg == a[i]
        keep == argsLoop(formal, cs, a, i + 1, Append(pArgs, arg))
        skip == argsLoop(formal, cs, a, i + 1, pArgs)
    IN
    IF arg = Str0 THEN keep
    ELSE IF arg[1] = "-" THEN skip
    ELSE IF i > 1
         THEN IF a[i - 1] = Str0 THEN [panic |-> TRUE, pArgs |-> pArgs]
              ELSE IF a[i - 1][1] = "-"
                   THEN LET f == ReplaceAllDash(a[i - 1])
                        IN  IF f \in DOMAIN formal /\ cs[formal[f]].kind # "bool"
                            THEN skip
                            ELSE keep
                   ELSE keep
         ELSE keep

argsOf(formal, cs, a) == argsLoop(formal, cs, a, 1, <<>>)

----------------------------------------------------------------------------
(* The state after package initialisation: CommandLine is created by       *)
(* NewFlagSet(os.Args[0], ExitOnError) over the empty flagInfoSlice.       *)

ProgName == <<"p","r","o","g">>
CommandLine == 1

newFlagSet(name, errorHandling) ==
    [name |-> name, errorHandling |-> errorHandling, formal |-> <<>>,
     args |-> <<>>, flags |-> [arr |-> 1, len |-> 0]]

Init ==
    /\ regs = <<newFlagSet(ProgName, "ExitOnError")>>
    /\ flagSets = (ProgName :> CommandLine)
    /\ arrays = <<[cap |-> FlagInfoCap, slots |-> <<>>]>>
    /\ cells = <<>>
    /\ pc = "define"
    /\ defs = <<>>
    /\ parseCall = None
    /\ argsCall = None
    /\ output = <<>>

----------------------------------------------------------------------------
(* The operations.  The calling program follows the package's protocol:   *)
(* it creates flag sets and defines flags, then parses once, then reads    *)
(* the arguments.  A panic or an exit ends it.                             *)

(* NewFlagSet as it would be if the first flag set of a name kept the      *)
(* entry of flagSets.                                                      *)
NewFlagSetFirstKept(name, errorHandling) ==
    /\ pc = "define"
    /\ Len(regs) < 1 + MaxRegs
    /\ regs' = Append(regs, newFlagSet(name, errorHandling))
    /\ flagSets' = flagSets @@ (name :> (Len(regs) + 1))
    /\ UNCHANGED <<arrays, cells, pc, defs, parseCall, argsCall, output>>

(* NewFlagSet(name, errorHandling): a later flag set of the same name      *)
(* replaces the entry of flagSets.                                         *)
NewFlagSet(name, errorHandling) ==
    /\ pc = "define"
    /\ Len(regs) < 1 + MaxRegs
    /\ regs' = Append(regs, newFlagSet(name, errorHandling))
    /\ flagSets' = (name :> (Len(regs) + 1)) @@ flagSets
    /\ UNCHANGED <<arrays, cells, pc, defs, parseCall, argsCall, output>>

(* defineFlag(fs, name, shorthand, value, usage). *)
defineFlag(fs, name, shorthand, value, usage) ==
    /\ pc = "define"
    /\ LET sh == effShorthand(name, shorthand)
           du == defineUsage(arrays, regs[fs].flags, name, sh, usage)
           dv == defineVar(regs[fs].formal, cells, name, sh, value)
       IN  /\ arrays' = du.arrays
           /\ regs' = [regs EXCEPT ![fs].flags = du.slice, ![fs].formal = dv.formal]
           /\ cells' = dv.cells
           /\ pc' = IF dv.panic THEN "panicked" ELSE pc
           /\ defs' = Append(defs, [fs |-> fs, name |-> name, shorthand |-> shorthand,
                                    value |-> value, usage |-> usage,
                                    ptr |-> dv.ptr, panic |-> dv.panic])
    /\ UNCHANGED <<flagSets, parseCall, argsCall, output>>

(* SetFlag(fs, ...) and Flag(...), which is SetFlag on CommandLine. *)
SetFlag(fs, name, shorthand, value, usage) == defineFlag(fs, name, shorthand, value, usage)
Flag(name, shorthand, value, usage) == defineFlag(CommandLine, name, shorthand, value, usage)

(* FlagSet.Parse on flag set target with tokens targs, for the call op of  *)
(* the program on flag set fs with tokens.                                 *)
stdParseCall(op, fs, tokens, target, targs) ==
    /\ pc = "define"
    /\ LET res == StdParse(regs[target].formal, cells, targs)
       IN  /\ cells' = res.cells
           /\ regs' = [regs EXCEPT ![target].args = res.args]
           /\ pc' = AfterParse(regs[target].errorHandling, res.err)
           /\ parseCall' = [op |-> op, fs |-> fs, tokens |-> tokens, err |-> res.err]
    /\ UNCHANGED <<flagSets, arrays, defs, argsCall, output>>

(* parse(fs, args), and Parse(), which is parse(CommandLine, os.Args[1:]). *)
parse(fs, tokens) ==
    LET t == parseTarget(flagSets, fs, tokens)
    IN  stdParseCall("parse", fs, tokens, t.fs, t.args)

Parse(tokens) == parse(CommandLine, tokens)

(* fs.Parse(args): the method of the embedded *flag.FlagSet. *)
FsParse(fs, tokens) == stdParseCall("fs.Parse", fs, tokens, fs, tokens)

(* args(fs), and Args(), which is args(CommandLine). *)
args(fs) ==
    /\ pc \in {"parsed", "args"}
    /\ LET res == argsOf(regs[fs].formal, cells, regs[fs].args)
       IN  /\ argsCall' = [op |-> "args", fs |-> fs, panic |-> res.panic, pArgs |-> res.pArgs]
           /\ pc' = IF res.panic THEN "panicked" ELSE "args"
    /\ UNCHANGED <<regs, flagSets, arrays, cells, defs, parseCall, output>>

Args == args(CommandLine)

(* usageFn.  fmt's %*s pads the string on the left to the width, on the    *)
(* right when the width is negative.                                       *)
Newline == "\n"

RECURSIVE Spaces(_)
Spaces(n) == IF n <= 0 THEN <<>> ELSE Append(Spaces(n - 1), " ")

PadTo(w, str) ==
    IF w >= 0 THEN Spaces(w - Len(str)) \o str ELSE str \o Spaces((0 - w) - Len(str))

UsagePrefix == <<"u", "s", "a", "g", "e", ":", " ">>

compound(f) ==
    (IF f.Shorthand # Str0 THEN <<"-">> \o f.Shorthand ELSE <<>>)
    \o (IF f.Longhand # Str0
        THEN (IF f.Shorthand # Str0 THEN <<" ">> ELSE <<>>) \o <<"-", "-">> \o f.Longhand
        ELSE <<>>)

(* The bracketed group of the synopsis and the line of the usage block. *)
usageGroup(f) ==
    IF f.UsageValue # Str0
    THEN <<" ", "[">> \o compound(f) \o <<"=">> \o f.UsageValue \o <<"]">>
    ELSE <<" ", "[">> \o compound(f) \o <<"]">>

usageLine(f) ==
    PadTo(Len(compound(f)) + 4, compound(f))
    \o PadTo(Len(f.Usage) - Len(compound(f)) + 16, f.Usage)
    \o <<Newline>>

(* The loop of usageFn from index i (0-based) with the builders s and u;   *)
(* the wrap tests the index of the range, which counts skipped entries.    *)
RECURSIVE usageLoop(_, _, _, _, _)
usageLoop(flags, i, p, s, u) ==
    IF i >= Len(flags) THEN s \o <<Newline>> \o u
    ELSE LET f == flags[i + 1] IN
         IF f.Shorthand = Str0 /\ f.Longhand = Str0
         THEN usageLoop(flags, i + 1, p, s, u)
         ELSE usageLoop(flags, i + 1, p,
                        IF (i + 1) % 4 = 0
                        THEN s \o usageGroup(f) \o <<Newline>> \o Spaces(p)
                        ELSE s \o usageGroup(f),
                        u \o usageLine(f))

usageFn(flags, name) ==
    usageLoop(flags, 0, Len(UsagePrefix \o name), UsagePrefix \o name, <<>>)

(* fs.Usage(): usageFn(fs, fs.Name()) written to fs.Output(); the program  *)
(* prints its usage last.                                                  *)
Usage(fs) ==
    /\ pc = "define"
    /\ output' = output \o usageFn(SliceElems(arrays, regs[fs].flags), regs[fs].name)
    /\ pc' = "usage"
    /\ UNCHANGED <<regs, flagSets, arrays, cells, defs, parseCall, argsCall>>

----------------------------------------------------------------------------
(* Inputs: names, values and tokens.                                       *)

nB == <<"b">>
nBool == <<"b","o","o","l">>
nS == <<"s">>
nString == <<"s","t","r","i","n","g">>
nSub == <<"s","u","b">>
nOutDir == <<"o","-","d">>
nO == <<"o">>
nX == <<"x">>
wWord == <<"w">>
wVal == <<"v">>
wDef == <<"d">>

Dash1(n) == <<"-">> \o n
Dash2(n) == <<"-","-">> \o n
Inline(marker, v) == marker \o <<"=">> \o v

Regs == 1..Len(regs)

(* Spec: one more flag set, created at any time, and any definitions on    *)
(* CommandLine (Flag) and on the created flag set (SetFlag).               *)
DefIds == { <<nB, Str0>>, <<nB, nB>>, <<nBool, nB>>, <<nBool, nBool>>, <<nB, nBool>> }
DefValues == { BoolVal(FALSE), StringVal(Str0), NilVal, OtherVal }

Next ==
    \/ \E eh \in ErrorHandlings : Len(regs) = 1 /\ NewFlagSet(nSub, eh)
    \/ Len(defs) < MaxDefs /\ \E fs \in Regs \ {CommandLine}, id \in DefIds, v \in DefValues :
           SetFlag(fs, id[1], id[2], v, Str0)
    \/ Len(defs) < MaxDefs /\ \E id \in DefIds, v \in DefValues : Flag(id[1], id[2], v, Str0)

Spec == Init /\ [][Next]_vars

(* SpecDispatch: flag sets named sub, one boolean flag b each, then parse  *)
(* with tokens that may name a flag set.                                   *)
DispatchTokens == { nSub, ProgName, Dash1(nB), wWord }
DispatchTokenSeqs == SeqsUpTo(DispatchTokens, MaxTokens)

NextDispatch ==
    \/ NewFlagSet(nSub, "ContinueOnError")
    \/ Len(defs) < MaxDefs /\ \E fs \in Regs : SetFlag(fs, nB, Str0, BoolVal(FALSE), Str0)
    \/ pc = "define" /\ \E fs \in Regs \ {CommandLine}, toks \in DispatchTokenSeqs : parse(fs, toks)
    \/ pc = "define" /\ \E toks \in DispatchTokenSeqs : Parse(toks)
    \/ Args

SpecDispatch == Init /\ [][NextDispatch]_vars

(* SpecArgs: the program of TestArgs.  One flag set with the empty name    *)
(* and ContinueOnError, the flags bool/b and string/s and a text flag with *)
(* a hyphen in its name and a default value, fs.Parse, args.  The program  *)
(* defines the flags it defines in the order of ArgDefs, each once.        *)
ArgDefs == << <<nBool, nB, BoolVal(FALSE)>>, <<nString, nS, StringVal(Str0)>>,
              <<nOutDir, nO, StringVal(wDef)>> >>
ArgTokens == { Dash1(nB), Dash2(nBool), Inline(Dash2(nBool), <<"f","a","l","s","e">>),
               Inline(Dash1(nB), <<"z">>), Dash1(nS), Inline(Dash2(nString), wVal),
               Dash2(nOutDir), Dash1(nX), <<"-","-">>, wWord, Str0 }
ArgTokenSeqs == SeqsUpTo(ArgTokens, MaxArgTokens)

NextArgs ==
    \/ Len(regs) = 1 /\ NewFlagSet(Str0, "ContinueOnError")
    \/ Len(regs) = 2 /\ Len(defs) < MaxDefs /\ \E i \in 1..Len(ArgDefs) :
          /\ \A k \in 1..Len(defs) : \E j \in 1..(i - 1) : defs[k].name = ArgDefs[j][1]
          /\ SetFlag(2, ArgDefs[i][1], ArgDefs[i][2], ArgDefs[i][3], Str0)
    \/ pc = "define" /\ Len(regs) = 2 /\ \E toks \in ArgTokenSeqs : FsParse(2, toks)
    \/ Len(regs) = 2 /\ args(2)

SpecArgs == Init /\ [][NextArgs]_vars

(* SpecSame: the program of TestNameIsShorthand.  One flag set with the    *)
(* empty name, flags whose name equals their shorthand, fs.Parse.          *)
SameIds == { nB, nBool }
SameValues == { BoolVal(FALSE), StringVal(Str0) }
SameTokens == { Dash1(nB), Dash2(nBool), wWord }
SameTokenSeqs == SeqsUpTo(SameTokens, MaxTokens)

NextSame ==
    \/ Len(regs) = 1 /\ NewFlagSet(Str0, "ContinueOnError")
    \/ Len(regs) = 2 /\ Len(defs) < MaxDefs /\ \E id \in SameIds, v \in SameValues :
           SetFlag(2, id, id, v, Str0)
    \/ pc = "define" /\ Len(regs) = 2 /\ \E toks \in SameTokenSeqs : FsParse(2, toks)

SpecSame == Init /\ [][NextSame]_vars

(* SpecHint: the program of TestDefineUsage.  One flag set, one flag, any  *)
(* usage text over a backtick and two other characters.                    *)
UsageChars == { Backtick, "u", "v" }
UsageTexts == SeqsUpTo(UsageChars, MaxUsageLen)

NextHint ==
    \/ Len(regs) = 1 /\ NewFlagSet(Str0, "ContinueOnError")
    \/ Len(regs) = 2 /\ Len(defs) = 0 /\ \E u \in UsageTexts :
           SetFlag(2, nBool, nB, BoolVal(FALSE), u)

SpecHint == Init /\ [][NextHint]_vars

(* SpecUsage: the program of TestUsage.  One flag set named t; the named   *)
(* flags of UsageDefs in their order, and between them definition calls    *)
(* with no identifier (and a nil default value, so that they bind          *)
(* nothing), then Usage.                                                   *)
nT == <<"t">>
UsageDefs == << <<<<"a","a">>, <<"a">>, BoolVal(FALSE), Str0>>,
                <<<<"b">>, Str0, BoolVal(FALSE), <<"u">>>>,
                <<<<"c","c">>, Str0, StringVal(Str0), <<"u", Backtick, "v", Backtick>>>>,
                <<<<"d","d">>, <<"d">>, BoolVal(FALSE), Str0>>,
                <<<<"e","e">>, <<"e">>, BoolVal(FALSE), Str0>> >>
NamedDefs == Cardinality({k \in 1..Len(defs) : defs[k].name # Str0})

NextUsage ==
    \/ Len(regs) = 1 /\ NewFlagSet(nT, "ContinueOnError")
    \/ Len(regs) = 2 /\ Len(defs) < MaxUsageDefs /\ NamedDefs < Len(UsageDefs)
          /\ LET d == UsageDefs[NamedDefs + 1] IN SetFlag(2, d[1], d[2], d[3], d[4])
    \/ Len(regs) = 2 /\ Len(defs) < MaxUsageDefs /\ SetFlag(2, Str0, Str0, NilVal, Str0)
    \/ Len(regs) = 2 /\ Usage(2)

SpecUsage == Init /\ [][NextUsage]_vars

----------------------------------------------------------------------------
(* What the claims speak of, stated on the tokens and the history of       *)
(* definition calls, without the parser's state.                           *)

Max(S) == CHOOSE x \in S : \A y \in S : y <= x

(* A flag marker: one or two dashes, then an identifier that is not empty  *)
(* and starts with neither "-" nor "=", then possibly "=" and a value.     *)
MarkerBody(t) == From(t, IF Len(t) > 1 /\ t[2] = "-" THEN 3 ELSE 2)
IsMarker(t) ==
    /\ Len(t) > 1 /\ t[1] = "-"
    /\ Len(MarkerBody(t)) > 0
    /\ MarkerBody(t)[1] \notin {"-", "="}
HasInline(t) == FirstEq(MarkerBody(t)) # 0
MarkerName(t) ==
    IF HasInline(t) THEN SubSeq(MarkerBody(t), 1, FirstEq(MarkerBody(t)) - 1)
    ELSE MarkerBody(t)
InlineValue(t) == From(MarkerBody(t), FirstEq(MarkerBody(t)) + 1)

(* The identifiers a definition call registers: its name and, unless empty *)
(* or equal to the name, its shorthand.                                    *)
IdsOf(d) == {d.name} \cup ({d.shorthand} \ {Str0})
Binds(d) == ~d.panic /\ d.value.kind \in {"bool", "string"}

(* The kind of the flag that id names in flag set fs: bool, string, none.  *)
KindOfId(fs, id) ==
    LET ks == {k \in 1..Len(defs) : defs[k].fs = fs /\ Binds(defs[k]) /\ id \in IdsOf(defs[k])}
    IN  IF ks = {} THEN "none" ELSE defs[CHOOSE k \in ks : TRUE].value.kind

(* A bare marker of a registered non-boolean flag: it takes the next token *)
(* as its value.                                                           *)
TakesValue(fs, t) ==
    IsMarker(t) /\ ~HasInline(t) /\ KindOfId(fs, MarkerName(t)) = "string"

(* Token i is not the value of the marker before it. *)
RECURSIVE NotValue(_, _, _)
NotValue(fs, toks, i) ==
    i = 1 \/ ~(TakesValue(fs, toks[i - 1]) /\ NotValue(fs, toks, i - 1))

(* The positions among the first n tokens where a marker of definition d   *)
(* stands that is not a value.                                             *)
Occurrences(d, toks, n) ==
    {i \in 1..n : /\ IsMarker(toks[i])
                  /\ MarkerName(toks[i]) \in IdsOf(d)
                  /\ NotValue(d.fs, toks, i)}

(* The value the marker at position i gives to a flag of default value v.  *)
Given(v, toks, i) ==
    IF v.kind = "bool"
    THEN [v EXCEPT !.b = IF HasInline(toks[i]) THEN ParseBool(InlineValue(toks[i])) ELSE TRUE]
    ELSE [v EXCEPT !.s = IF HasInline(toks[i]) THEN InlineValue(toks[i]) ELSE toks[i + 1]]

(* The value of definition d after the first n tokens were assigned. *)
Assigned(d, toks, n) ==
    IF Occurrences(d, toks, n) = {} THEN d.value
    ELSE Given(d.value, toks, Max(Occurrences(d, toks, n)))

Parsed == parseCall.op # "none"
ParsedOk == Parsed /\ parseCall.err = "nil"
(* The flag set the call parsed and the tokens it was given, for a call of *)
(* fs.Parse.                                                               *)
DirectParse == Parsed /\ parseCall.op = "fs.Parse"
(* The number of tokens a parse consumed: all but the leftover. *)
Consumed == Len(parseCall.tokens) - Len(regs[parseCall.fs].args)

----------------------------------------------------------------------------
(* C1: for a flag defined with a non-empty name and a different non-empty  *)
(* shorthand, both identifiers are registered with the same variable, the  *)
(* one the definition call returned; after a successful parse that         *)
(* variable holds the value given by the last marker of either identifier  *)
(* among the tokens the parse consumed.                                    *)
C1_SameVariable ==
    \A k \in 1..Len(defs) :
        LET d == defs[k] IN
        (Binds(d) /\ d.name # Str0 /\ d.shorthand # Str0 /\ d.name # d.shorthand)
        => /\ d.name \in DOMAIN regs[d.fs].formal
           /\ d.shorthand \in DOMAIN regs[d.fs].formal
           /\ regs[d.fs].formal[d.name] = d.ptr
           /\ regs[d.fs].formal[d.shorthand] = d.ptr
           /\ (DirectParse /\ ParsedOk /\ parseCall.fs = d.fs)
              => cells[d.ptr] = Assigned(d, parseCall.tokens, Consumed)

(* A successful parse gave a text flag a value through its name and later  *)
(* another through its shorthand, and the pointer reads the later one.     *)
C1_Witness ==
    /\ DirectParse /\ ParsedOk
    /\ \E k \in 1..Len(defs) :
        LET d == defs[k]
            occ == Occurrences(d, parseCall.tokens, Consumed)
        IN  /\ Binds(d) /\ d.value.kind = "string" /\ d.fs = parseCall.fs
            /\ \E i \in occ, j \in occ :
                 /\ i < j /\ j = Max(occ)
                 /\ MarkerName(parseCall.tokens[i]) = d.name
                 /\ MarkerName(parseCall.tokens[j]) = d.shorthand
                 /\ cells[d.ptr].s = wWord
                 /\ Given(d.value, parseCall.tokens, i).s # wWord

----------------------------------------------------------------------------
(* The positional arguments as the specification states them.              *)

RECURSIVE SubseqAt(_, _)
SubseqAt(toks, I) ==
    IF I = {} THEN <<>>
    ELSE Append(SubseqAt(toks, I \ {Max(I)}), toks[Max(I)])

RECURSIVE IsSubseq(_, _)
IsSubseq(a, b) ==
    IF a = <<>> THEN TRUE
    ELSE IF b = <<>> THEN FALSE
    ELSE IF Head(a) = Head(b) THEN IsSubseq(Tail(a), Tail(b))
    ELSE IsSubseq(a, Tail(b))

(* A marker of a registered non-boolean flag, bare or with "=value". *)
NamesText(fs, t) == IsMarker(t) /\ KindOfId(fs, MarkerName(t)) = "string"

(* The tokens that do not start with "-" and do not follow a marker of a   *)
(* registered non-boolean flag, under each reading of "a marker": any      *)
(* token of that form or only one that is not itself a value, a bare       *)
(* marker or also one with "=value".                                       *)
Positional(fs, toks, inline, classified) ==
    SubseqAt(toks,
        {i \in 1..Len(toks) :
            /\ ~HasPrefixDash(toks[i])
            /\ ~(/\ i > 1
                 /\ IF inline THEN NamesText(fs, toks[i - 1]) ELSE TakesValue(fs, toks[i - 1])
                 /\ classified => NotValue(fs, toks, i - 1))})

ArgsAfterParse ==
    /\ DirectParse /\ ParsedOk
    /\ argsCall.op = "args" /\ argsCall.fs = parseCall.fs

(* C2: after a successful parse, args returns exactly the tokens of the    *)
(* sequence, in order, that do not start with "-" and do not follow a      *)
(* marker of a registered non-boolean flag, for sequences of flag markers  *)
(* and plain (non-empty) words; the claim stands under any reading of "a   *)
(* marker".                                                                *)
C2_Claim ==
    (ArgsAfterParse /\ Str0 \notin Range(parseCall.tokens))
    => /\ ~argsCall.panic
       /\ \E inline \in BOOLEAN, classified \in BOOLEAN :
            argsCall.pArgs = Positional(parseCall.fs, parseCall.tokens, inline, classified)

(* C7: for every token sequence parse accepts, args returns normally and   *)
(* its result holds, in order, every empty token of the leftover tokens.   *)
C7_Claim ==
    ArgsAfterParse
    => /\ ~argsCall.panic
       /\ IsSubseq(argsCall.pArgs, regs[argsCall.fs].args)
       /\ SelectSeq(argsCall.pArgs, LAMBDA t : t = Str0)
            = SelectSeq(regs[argsCall.fs].args, LAMBDA t : t = Str0)

(* C6: a bare marker of a registered boolean flag that the parse reads     *)
(* sets the flag (the last marker of the flag decides, "=false" setting it *)
(* to false), and the token after a bare boolean marker, when it does not  *)
(* start with "-", is returned by args.                                    *)
BareBool(fs, t) == IsMarker(t) /\ ~HasInline(t) /\ KindOfId(fs, MarkerName(t)) = "bool"

C6_Claim ==
    (DirectParse /\ ParsedOk)
    => LET toks == parseCall.tokens
           fs == parseCall.fs
       IN  \A i \in 1..Len(toks) :
             BareBool(fs, toks[i])
             => /\ (i <= Consumed /\ NotValue(fs, toks, i))
                   => \A k \in 1..Len(defs) :
                        (defs[k].fs = fs /\ Binds(defs[k]) /\ MarkerName(toks[i]) \in IdsOf(defs[k]))
                        => cells[defs[k].ptr] = Assigned(defs[k], toks, Consumed)
                /\ (argsCall.op = "args" /\ argsCall.fs = fs /\ i < Len(toks)
                      /\ ~HasPrefixDash(toks[i + 1]))
                   => /\ ~argsCall.panic
                      /\ toks[i + 1] \in Range(argsCall.pArgs)

----------------------------------------------------------------------------
(* C5: a flag defined with default value d whose name and shorthand no     *)
(* token of the parsed sequence marks holds d after the parse, whether the *)
(* parse succeeded or failed and whatever other flags were assigned.       *)
Marked(d, toks) ==
    \E i \in 1..Len(toks) : IsMarker(toks[i]) /\ MarkerName(toks[i]) \in IdsOf(d)

C5_DefaultKept ==
    Parsed
    => \A k \in 1..Len(defs) :
         (defs[k].ptr # 0 /\ ~Marked(defs[k], parseCall.tokens))
         => cells[defs[k].ptr] = defs[k].value

(* A parse failed after it assigned a flag, and a flag of default value d  *)
(* that no token marks holds d.                                            *)
C5_Witness ==
    /\ Parsed /\ parseCall.err # "nil"
    /\ \E k \in 1..Len(defs), j \in 1..Len(defs) :
         /\ defs[k].ptr # 0 /\ defs[k].value = StringVal(wDef)
         /\ ~Marked(defs[k], parseCall.tokens)
         /\ cells[defs[k].ptr] = defs[k].value
         /\ defs[j].ptr # 0 /\ cells[defs[j].ptr] # defs[j].value

(* C9: a parse that fails under ContinueOnError returns to the caller, and *)
(* every flag holds the value the tokens before the failing token gave it  *)
(* (its default when they gave none).                                      *)

(* Token i stands where the parser expects a flag and cannot be taken: a   *)
(* malformed marker, an unknown identifier, a malformed boolean value, or  *)
(* a marker of a non-boolean flag with no value after it.                  *)
Fails(fs, toks, i) ==
    /\ NotValue(fs, toks, i)
    /\ Len(toks[i]) > 1 /\ toks[i][1] = "-" /\ toks[i] # <<"-", "-">>
    /\ \/ ~IsMarker(toks[i])
       \/ KindOfId(fs, MarkerName(toks[i])) = "none"
       \/ /\ KindOfId(fs, MarkerName(toks[i])) = "bool"
          /\ HasInline(toks[i])
          /\ ~ParseBoolOk(InlineValue(toks[i]))
       \/ /\ KindOfId(fs, MarkerName(toks[i])) = "string"
          /\ ~HasInline(toks[i])
          /\ i = Len(toks)

FailingTokens(fs, toks) == {i \in 1..Len(toks) : Fails(fs, toks, i)}
FirstFailing(fs, toks) ==
    CHOOSE i \in FailingTokens(fs, toks) : \A j \in FailingTokens(fs, toks) : i <= j

FailedToCaller ==
    /\ DirectParse /\ parseCall.err # "nil"
    /\ regs[parseCall.fs].errorHandling = "ContinueOnError"

----------------------------------------------------------------------------
(* C3: parse(fs, tokens) delegates exactly when tokens has more than one   *)
(* token and the first names a flag set of flagSets: then only the named   *)
(* flag set is parsed, with the tail, and the flag set passed to parse     *)
(* keeps its variables and leftover arguments; in every other case the     *)
(* passed flag set is parsed with all the tokens.                          *)

Delegates ==
    /\ parseCall.op = "parse"
    /\ Len(parseCall.tokens) > 1
    /\ parseCall.tokens[1] \in DOMAIN flagSets
Named == flagSets[parseCall.tokens[1]]

(* The variables as the definition calls left them. *)
DefaultCells ==
    [p \in 1..Len(cells) |-> defs[CHOOSE k \in 1..Len(defs) : defs[k].ptr = p].value]

(* Flag set r was parsed with toks, and no flag set but r was. *)
OnlyParsed(r, toks) ==
    LET o == StdParse(regs[r].formal, DefaultCells, toks)
    IN  /\ parseCall.err = o.err
        /\ \A p \in 1..Len(cells) : cells[p] = o.cells[p]
        /\ regs[r].args = o.args
        /\ \A q \in Regs \ {r} : regs[q].args = <<>>

(* Flag set r has the variables and the leftover arguments it had before   *)
(* the parse.                                                              *)
Untouched(r) ==
    /\ regs[r].args = <<>>
    /\ \A k \in 1..Len(defs) :
         (defs[k].fs = r /\ defs[k].ptr # 0) => cells[defs[k].ptr] = defs[k].value

(* The claim as stated: the passed flag set is unchanged in every          *)
(* delegation.                                                             *)
C3_AsStated ==
    parseCall.op = "parse"
    => IF Delegates
       THEN OnlyParsed(Named, Tail(parseCall.tokens)) /\ Untouched(parseCall.fs)
       ELSE OnlyParsed(parseCall.fs, parseCall.tokens)

(* C3, amended: the passed flag set is unchanged in a delegation unless it *)
(* is itself the flag set the first token names.                           *)
C3_Delegation ==
    parseCall.op = "parse"
    => IF Delegates
       THEN /\ OnlyParsed(Named, Tail(parseCall.tokens))
            /\ Named # parseCall.fs => Untouched(parseCall.fs)
       ELSE OnlyParsed(parseCall.fs, parseCall.tokens)

(* A delegation to another flag set set its flag b and left the flag b of  *)
(* the passed flag set alone.                                              *)
C3_Witness ==
    /\ Delegates /\ Named # parseCall.fs
    /\ \E k \in 1..Len(defs), j \in 1..Len(defs) :
         /\ defs[k].fs = Named /\ defs[k].ptr # 0 /\ cells[defs[k].ptr].b
         /\ defs[j].fs = parseCall.fs /\ defs[j].ptr # 0 /\ ~cells[defs[j].ptr].b

----------------------------------------------------------------------------
(* C4: a definition call on a flag set that uses an identifier (as name or *)
(* shorthand) an earlier definition call on the same flag set used fails   *)
(* fatally, whatever the error policy and the default values; the same     *)
(* identifier in two flag sets does not fail.                              *)

SharesId(k, j) == IdsOf(defs[k]) \cap IdsOf(defs[j]) # {}
Redefines(k, j) == k < j /\ defs[k].fs = defs[j].fs /\ SharesId(k, j)
Fatal(j) == defs[j].panic /\ pc = "panicked"

(* A supported default value in another flag set than every earlier call   *)
(* that used one of its identifiers.                                       *)
FirstUseInFlagSet(j) ==
    /\ defs[j].value.kind \in {"bool", "string"}
    /\ \A k \in 1..(j - 1) : defs[k].fs # defs[j].fs

(* The claim as stated: whatever the default values of the two calls. *)
C4_AsStated ==
    \A k \in 1..Len(defs), j \in 1..Len(defs) :
      /\ Redefines(k, j) => Fatal(j)
      /\ (k < j /\ SharesId(k, j) /\ FirstUseInFlagSet(j)) => ~defs[j].panic

(* C4, amended: the second call fails fatally when neither default value   *)
(* is nil; a call with a nil default value binds nothing and never fails,  *)
(* and an identifier only such calls used is free.                         *)
C4_Duplicate ==
    \A k \in 1..Len(defs), j \in 1..Len(defs) :
      /\ (Redefines(k, j) /\ defs[k].value.kind # "nil" /\ defs[j].value.kind # "nil")
         => Fatal(j)
      /\ (Redefines(k, j) /\ defs[j].value.kind = "nil") => ~defs[j].panic
      /\ (k < j /\ SharesId(k, j) /\ FirstUseInFlagSet(j)) => ~defs[j].panic

(* On a flag set of policy ContinueOnError a second call failed whose      *)
(* shorthand is the name of the first, with another default value.         *)
C4_Witness ==
    /\ Len(defs) = 2 /\ Redefines(1, 2) /\ Fatal(2)
    /\ regs[defs[2].fs].errorHandling = "ContinueOnError"
    /\ defs[2].shorthand = defs[1].name /\ defs[2].name # defs[1].name
    /\ defs[1].value.kind = "bool" /\ defs[2].value.kind = "string"

----------------------------------------------------------------------------
(* C8: whatever the order of flag set creations and definition calls, the  *)
(* flagInfo list of each flag set is the sequence of the flagInfo its own  *)
(* definition calls appended, in the order of the calls.                   *)

OwnDefs(r) == SelectSeq(defs, LAMBDA d : d.fs = r)
DescriptorOf(d) ==
    [Longhand |-> IF Len(d.name) = 1 THEN Str0 ELSE d.name,
     Shorthand |-> IF Len(d.name) = 1 THEN d.name
                   ELSE IF d.shorthand = d.name THEN Str0 ELSE d.shorthand,
     UsageValue |-> Str0,
     Usage |-> d.usage]

C8_OwnDescriptors ==
    \A r \in Regs :
      LET held == SliceElems(arrays, regs[r].flags) IN
      /\ Len(held) = Len(OwnDefs(r))
      /\ \A i \in 1..Len(held) : held[i] = DescriptorOf(OwnDefs(r)[i])

----------------------------------------------------------------------------
(* C10: a definition call whose name equals its shorthand does not fail as *)
(* a duplicate: it binds the identifier once, appends one flagInfo, and a  *)
(* later parse of a marker of the identifier sets the variable the         *)
(* returned pointer reads.                                                 *)

NameIsShorthand(k) == defs[k].name = defs[k].shorthand /\ defs[k].name # Str0
UsedBefore(k) ==
    \E j \in 1..(k - 1) : defs[j].fs = defs[k].fs /\ IdsOf(defs[j]) \cap IdsOf(defs[k]) # {}
BoundTo(fs, ptr) == {id \in DOMAIN regs[fs].formal : regs[fs].formal[id] = ptr}

C10_NameIsShorthand ==
    /\ \A k \in 1..Len(defs) :
         NameIsShorthand(k)
         => /\ ~UsedBefore(k) => ~defs[k].panic
            /\ ~defs[k].panic
               => /\ defs[k].ptr # 0
                  /\ BoundTo(defs[k].fs, defs[k].ptr) = {defs[k].name}
                  /\ ParsedOk /\ parseCall.fs = defs[k].fs
                     => cells[defs[k].ptr] = Assigned(defs[k], parseCall.tokens, Consumed)
    /\ \A r \in Regs :
         (\A k \in 1..Len(defs) : defs[k].fs = r => NameIsShorthand(k))
         => regs[r].flags.len = Len(OwnDefs(r))

(* A flag defined with the name bool for shorthand too was set by --bool. *)
C10_Witness ==
    /\ ParsedOk
    /\ \E i \in 1..Consumed : parseCall.tokens[i] = Dash2(nBool)
    /\ \E k \in 1..Len(defs) :
         /\ NameIsShorthand(k) /\ defs[k].name = nBool /\ ~defs[k].panic
         /\ defs[k].fs = parseCall.fs
         /\ defs[k].value = BoolVal(FALSE)
         /\ cells[defs[k].ptr] = BoolVal(TRUE)
         /\ regs[defs[k].fs].flags.len = 1

----------------------------------------------------------------------------
(* C11: a flag defined with a non-empty name and a different non-empty     *)
(* shorthand has two independent variables, one per identifier, each       *)
(* seeded with the default value: a parse that assigns the flag through    *)
(* one identifier leaves the value read through the other unchanged.       *)

TwoIds(d) == Binds(d) /\ d.name # Str0 /\ d.shorthand # Str0 /\ d.name # d.shorthand
Other(d, id) == IF id = d.name THEN d.shorthand ELSE d.name
CellOf(d, id) == cells[regs[d.fs].formal[id]]

(* The successful parse assigned definition d, and only through id. *)
AssignedOnlyThrough(d, id) ==
    /\ DirectParse /\ ParsedOk /\ parseCall.fs = d.fs
    /\ Occurrences(d, parseCall.tokens, Consumed) # {}
    /\ \A i \in Occurrences(d, parseCall.tokens, Consumed) :
         MarkerName(parseCall.tokens[i]) = id

(* The claim as stated. *)
C11_AsStated ==
    \A k \in 1..Len(defs) :
      TwoIds(defs[k])
      => /\ regs[defs[k].fs].formal[defs[k].name] # regs[defs[k].fs].formal[defs[k].shorthand]
         /\ \A id \in IdsOf(defs[k]) :
              AssignedOnlyThrough(defs[k], id)
              => CellOf(defs[k], Other(defs[k], id)) = defs[k].value

(* C11, amended: the two identifiers are bound to one variable seeded with *)
(* the default value, and a parse that assigns the flag through one        *)
(* identifier changes the value read through the other to the value the    *)
(* last marker gave.                                                       *)
C11_OneCell ==
    \A k \in 1..Len(defs) :
      TwoIds(defs[k])
      => /\ regs[defs[k].fs].formal[defs[k].name] = regs[defs[k].fs].formal[defs[k].shorthand]
         /\ ~Parsed => CellOf(defs[k], defs[k].name) = defs[k].value
         /\ \A id \in IdsOf(defs[k]) :
              AssignedOnlyThrough(defs[k], id)
              => CellOf(defs[k], Other(defs[k], id))
                   = Given(defs[k].value, parseCall.tokens,
                           Max(Occurrences(defs[k], parseCall.tokens, Consumed)))

(* A parse set the boolean flag through its shorthand only, and the value  *)
(* read through its name is true.                                          *)
C11_Witness ==
    \E k \in 1..Len(defs) :
      /\ TwoIds(defs[k]) /\ defs[k].value = BoolVal(FALSE)
      /\ AssignedOnlyThrough(defs[k], defs[k].shorthand)
      /\ CellOf(defs[k], defs[k].name) = BoolVal(TRUE)

----------------------------------------------------------------------------
(* C13: a parse classifies every token wherever it stands: every marker    *)
(* that is not the value of the marker before it is assigned when its      *)
(* identifier is bound, also after a positional token, and makes the parse *)
(* fail when its identifier is not bound.  Stated for token sequences      *)
(* without the terminator "--".                                            *)

ClassifiedMarkers(fs, toks) ==
    {i \in 1..Len(toks) : IsMarker(toks[i]) /\ NotValue(fs, toks, i)}

C13_Claim ==
    (DirectParse /\ <<"-", "-">> \notin Range(parseCall.tokens))
    => LET toks == parseCall.tokens
           fs == parseCall.fs
       IN  /\ (\E i \in ClassifiedMarkers(fs, toks) : KindOfId(fs, MarkerName(toks[i])) = "none")
              => parseCall.err # "nil"
           /\ parseCall.err = "nil"
              => \A k \in 1..Len(defs) :
                   (defs[k].fs = fs /\ Binds(defs[k]))
                   => cells[defs[k].ptr] = Assigned(defs[k], toks, Len(toks))

----------------------------------------------------------------------------
(* C14: every definition call appends exactly one flagInfo to its flag     *)
(* set, and the flagInfo holds, as Longhand or Shorthand, every non-empty  *)
(* identifier the call bound, a one-character name being held as Shorthand *)
(* with Longhand cleared.  Stated of the call made last, whose flagInfo no *)
(* later call has touched.                                                 *)

LastDef == defs[Len(defs)]
LastInfo == arrays[regs[LastDef.fs].flags.arr].slots[regs[LastDef.fs].flags.len]

C14_Claim ==
    Len(defs) > 0
    => /\ regs[LastDef.fs].flags.len = Len(OwnDefs(LastDef.fs))
       /\ Len(LastDef.name) = 1
          => LastInfo.Longhand = Str0 /\ LastInfo.Shorthand = LastDef.name
       /\ LastDef.ptr # 0
          => \A id \in BoundTo(LastDef.fs, LastDef.ptr) \ {Str0} :
               id \in {LastInfo.Longhand, LastInfo.Shorthand}

----------------------------------------------------------------------------
(* C15: after any sequence of NewFlagSet calls, flagSets maps each name to *)
(* the flag set created last under it: a delegating parse whose first      *)
(* token is the name assigns the tail tokens to the flags of that flag     *)
(* set, and every earlier flag set of the name keeps its variables and     *)
(* its leftover arguments.                                                 *)

NamedSets(name) == {r \in Regs : regs[r].name = name}
Latest(name) == Max(NamedSets(name))

C15_LatestWins ==
    /\ DOMAIN flagSets = {regs[r].name : r \in Regs}
    /\ \A name \in DOMAIN flagSets : flagSets[name] = Latest(name)
    /\ (Delegates /\ parseCall.err = "nil")
       => LET name == parseCall.tokens[1]
              toks == Tail(parseCall.tokens)
              read == Len(toks) - Len(regs[Latest(name)].args)
          IN  /\ \A k \in 1..Len(defs) :
                   (defs[k].fs = Latest(name) /\ Binds(defs[k]))
                   => cells[defs[k].ptr] = Assigned(defs[k], toks, read)
              /\ \A r \in NamedSets(name) \ {Latest(name)} : Untouched(r)

(* Two flag sets of one name define the flag b; a delegating parse set the *)
(* flag of the later one and left the flag of the earlier one alone.       *)
C15_Witness ==
    /\ Delegates /\ parseCall.err = "nil"
    /\ \E r \in NamedSets(parseCall.tokens[1]), k \in 1..Len(defs), j \in 1..Len(defs) :
         /\ r < Latest(parseCall.tokens[1])
         /\ defs[k].fs = Latest(parseCall.tokens[1]) /\ Binds(defs[k])
         /\ cells[defs[k].ptr] = BoolVal(TRUE)
         /\ defs[j].fs = r /\ Binds(defs[j])
         /\ cells[defs[j].ptr] = BoolVal(FALSE)

----------------------------------------------------------------------------
(* C12: the usage-value hint of a usage text is the text strictly between  *)
(* its first and its second backtick, possibly empty, and is empty when    *)
(* the text holds fewer than two backticks, wherever the first backtick    *)
(* stands.                                                                 *)

Ticks(s) == {i \in 1..Len(s) : s[i] = Backtick}
Min(S) == CHOOSE x \in S : \A y \in S : x <= y
HintOf(s) ==
    IF Cardinality(Ticks(s)) < 2 THEN Str0
    ELSE SubSeq(s, Min(Ticks(s)) + 1, Min(Ticks(s) \ {Min(Ticks(s))}) - 1)

C12_Hint ==
    Len(defs) > 0
    => /\ LastInfo.Usage = LastDef.usage
       /\ LastInfo.UsageValue = HintOf(LastDef.usage)

(* A usage text that starts with a backtick gave a hint that is not empty, *)
(* and more text and a third backtick follow the second.                   *)
C12_Witness ==
    /\ Len(defs) > 0
    /\ Len(LastDef.usage) > 0 /\ LastDef.usage[1] = Backtick
    /\ Cardinality(Ticks(LastDef.usage)) = 3
    /\ LastInfo.UsageValue = <<"v">>

----------------------------------------------------------------------------
(* C16: in the synopsis of the usage text a flagInfo with both identifiers *)
(* empty emits nothing, and the line wraps (a newline and as many spaces   *)
(* as "usage: <name>" is long) after every 4th group emitted, counting     *)
(* only the groups emitted.                                                *)

Emitted(flags) == SelectSeq(flags, LAMBDA f : f.Shorthand # Str0 \/ f.Longhand # Str0)

(* The synopsis of the first n groups emitted. *)
RECURSIVE Synopsis(_, _, _)
Synopsis(groups, n, name) ==
    IF n = 0 THEN UsagePrefix \o name
    ELSE Synopsis(groups, n - 1, name)
         \o usageGroup(groups[n])
         \o (IF n % 4 = 0 THEN <<Newline>> \o Spaces(Len(UsagePrefix \o name)) ELSE <<>>)

RECURSIVE UsageBlock(_, _)
UsageBlock(groups, n) ==
    IF n = 0 THEN <<>> ELSE UsageBlock(groups, n - 1) \o usageLine(groups[n])

Printed == pc = "usage"
PrintedFlags == Emitted(SliceElems(arrays, regs[2].flags))

C16_Claim ==
    Printed
    => LET want == Synopsis(PrintedFlags, Len(PrintedFlags), regs[2].name)
                   \o <<Newline>> \o UsageBlock(PrintedFlags, Len(PrintedFlags))
       IN  /\ Len(output) = Len(want)
           /\ \A i \in 1..Len(want) : output[i] = want[i]

====
